---- MODULE Spec2Model ----
(***************************************************************************)
(* Model of the subscription-and-broadcast server of metro-now-backend     *)
(* (src/src/server.ts): the handshake handler `fetch`, the websocket       *)
(* handlers `open`, `message`, `close`, and the asynchronous refresh       *)
(* `fetchData`, split at its single await (the call of fetchApiData).      *)
(***************************************************************************)
EXTENDS Integers, Sequences, FiniteSets, TLC

(* ---------------------------------------------------------------- bounds *)
\* connection identifiers uuid() can hand out in one run
MaxClients == 2
\* refreshes that may wait for the Fetch Gateway at the same time
MaxPending == 1

Stops == {"stopA", "stopB"}
\* what the gateway may answer for one requested stop: nothing, one
\* departure, or two departures (the numbers tell the records apart)
Answers == {<<>>, <<1>>, <<2, 1>>}

\* `null` of `let intervalId: number | null`
null == 0
\* clientID of a refresh started without a target (the periodic tick)
NoClient == 0

VARIABLES
  intervalId,                   \* server.ts:16
  subscribedStopIDsByClientID,  \* server.ts:18  Subscription Registry
  wsByClientID,                 \* server.ts:19  send-handle map: its keys, in Map order
  departuresByStopID,           \* server.ts:21  Departure Cache
  timers,                       \* handles made by setInterval, not yet cleared
  timerSeq,                     \* number of handles setInterval has made
  nextID,                       \* number of identifiers uuid() has made
  conn,                         \* the socket of every identifier made so far
  pending,                      \* fetchData calls suspended at the await
  lastOp,                       \* the handler that ran last, with its input
  before,                       \* the maps and the timer handle as that handler found them
  sent,                         \* ws.send calls of the handler that ran last
  thrown                        \* error raised by the handler that ran last

vars == <<intervalId, subscribedStopIDsByClientID, wsByClientID,
          departuresByStopID, timers, timerSeq, nextID, conn, pending,
          lastOp, before, sent, thrown>>

(* ------------------------------------------------------- sequence helpers *)
Range(s) == {s[i] : i \in 1..Len(s)}

RECURSIVE Flat(_)
\* Array.prototype.flat() over a sequence of sequences
Flat(ss) == IF ss = <<>> THEN <<>> ELSE Head(ss) \o Flat(Tail(ss))

RECURSIVE SortedSeq(_)
\* the elements of a finite set of numbers, ascending
SortedSeq(S) ==
  IF S = {} THEN <<>>
  ELSE LET m == CHOOSE x \in S : \A y \in S : x <= y
       IN <<m>> \o SortedSeq(S \ {m})

RECURSIVE FirstOccurrences(_)
\* the distinct elements of s, in the order of their first occurrence
FirstOccurrences(s) ==
  IF s = <<>> THEN <<>>
  ELSE LET r == FirstOccurrences(SubSeq(s, 1, Len(s) - 1))
           x == s[Len(s)]
       IN IF x \in Range(r) THEN r ELSE Append(r, x)

\* Map.prototype.delete
MapDelete(m, k) == [x \in DOMAIN m \ {k} |-> m[x]]

\* Map.prototype.set
MapSet(m, k, v) == [x \in DOMAIN m \cup {k} |-> IF x = k THEN v ELSE m[x]]

(* ------------------------------------------------------------ JSON input *)
\* A JSON value: an array (items), or an object with one key whose value is
\* an array (vt = "arr", items) or something else (vt = "num").
JStr(s) == [t |-> "str", s |-> s]
JNum == [t |-> "num", s |-> "1"]
JArr(items) == [t |-> "arr", key |-> "", vt |-> "", items |-> items]
JObj(key, vt, items) == [t |-> "obj", key |-> key, vt |-> vt, items |-> items]
JOfList(L) == [i \in 1..Len(L) |-> JStr(L[i])]

\* A header or frame as received: absent, the empty string, a binary frame,
\* or text that either is JSON for `value` or is not JSON at all.
Raw(kind, value) == [kind |-> kind, value |-> value]
RawNull == Raw("null", JArr(<<>>))
RawEmpty == Raw("empty", JArr(<<>>))
RawBinary == Raw("binary", JArr(<<>>))
RawGarbage == Raw("garbage", JArr(<<>>))
RawJson(v) == Raw("json", v)

\* JSON.parse: the value, or a SyntaxError
JSONParse(raw) ==
  IF raw.kind = "json" THEN [ok |-> TRUE, value |-> raw.value, error |-> ""]
  ELSE [ok |-> FALSE, value |-> JArr(<<>>), error |-> "SyntaxError"]

\* StopIDsSchema.safeParse: a non-empty array of non-empty strings
StopIDsSchema(v) ==
  IF v.t # "arr" THEN [success |-> FALSE, data |-> <<>>, message |-> "Expected array"]
  ELSE IF \E i \in 1..Len(v.items) : v.items[i].t # "str"
    THEN [success |-> FALSE, data |-> <<>>, message |-> "Expected string"]
  ELSE IF \E i \in 1..Len(v.items) : v.items[i].s = ""
    THEN [success |-> FALSE, data |-> <<>>, message |-> "String must not be empty"]
  ELSE IF Len(v.items) = 0
    THEN [success |-> FALSE, data |-> <<>>, message |-> "Array must not be empty"]
  ELSE [success |-> TRUE, data |-> [i \in 1..Len(v.items) |-> v.items[i].s],
        message |-> ""]

\* SubscribeSchema.safeParse: an object { subscribe: <stop list> }
SubscribeSchema(v) ==
  IF v.t # "obj" THEN [success |-> FALSE, data |-> <<>>, message |-> "Expected object"]
  ELSE IF v.key # "subscribe"
    THEN [success |-> FALSE, data |-> <<>>, message |-> "Required"]
  ELSE IF v.vt # "arr"
    THEN [success |-> FALSE, data |-> <<>>, message |-> "Expected array"]
  ELSE StopIDsSchema(JArr(v.items))

\* the stop lists clients send: one stop, and two stops in an order that
\* sorting would change
ValidLists == {<<"stopA">>, <<"stopB", "stopA">>}

\* array values that fail StopIDsSchema
BadArrays == {<<>>, <<JStr("stopA"), JNum>>}

HeaderInputs ==
  {RawNull, RawEmpty, RawGarbage}
    \cup {RawJson(JArr(a)) : a \in BadArrays}
    \cup {RawJson(JArr(JOfList(L))) : L \in ValidLists}

MessageInputs ==
  {RawBinary, RawGarbage, RawJson(JObj("stops", "arr", JOfList(<<"stopA">>)))}
    \cup {RawJson(JObj("subscribe", "arr", a)) : a \in BadArrays}
    \cup {RawJson(JObj("subscribe", "arr", JOfList(L))) : L \in ValidLists}

(* ---------------------------------------------------------- the gateway *)
RawDeparture(s, v) == [stop |-> [id |-> s], v |-> v]

\* getParsedDeparture: the raw record renamed into the cache's shape
getParsedDeparture(d) == [stopID |-> d.stop.id, v |-> d.v]

RECURSIVE ConcatOver(_, _)
ConcatOver(f, keys) ==
  IF keys = <<>> THEN <<>> ELSE f[Head(keys)] \o ConcatOver(f, Tail(keys))

\* what fetchApiData may resolve to for a request: for each requested stop,
\* one of Answers
Responses(stopIDs) ==
  LET ks == FirstOccurrences(stopIDs)
      perStop == [Range(ks) -> Answers]
  IN {ConcatOver([s \in Range(ks) |->
                    [i \in 1..Len(f[s]) |-> RawDeparture(s, f[s][i])]], ks)
        : f \in perStop}

\* radash group(res.departures, d => d.stop.id), then the parse of each group
GroupParsed(departures) ==
  LET ids == {departures[i].stop.id : i \in 1..Len(departures)}
  IN [s \in ids |->
        LET g == SelectSeq(departures, LAMBDA d : d.stop.id = s)
        IN [i \in 1..Len(g) |-> getParsedDeparture(g[i])]]

(* ------------------------------------------------------------- fetchData *)
\* the entries of the registry in Map order: identifiers are inserted once,
\* in the order uuid() makes them, and Map.set of a present key keeps its place
RegistryValues ==
  LET ks == SortedSeq(DOMAIN subscribedStopIDsByClientID)
  IN [i \in 1..Len(ks) |-> subscribedStopIDsByClientID[ks[i]]]

\* a refresh that names every subscribed stop once
getAllSubscribedStopIDs_Deduplicated == FirstOccurrences(Flat(RegistryValues))

getAllSubscribedStopIDs == Flat(RegistryValues)

\* a targeted refresh that asks for every subscribed stop, cached or not
stopIDsToFetch_NoFilter(clientID) ==
  IF clientID # NoClient THEN subscribedStopIDsByClientID[clientID]
  ELSE getAllSubscribedStopIDs

\* server.ts:35-39
stopIDsToFetch(clientID) ==
  IF clientID # NoClient
  THEN SelectSeq(subscribedStopIDsByClientID[clientID],
                 LAMBDA stopID : stopID \notin DOMAIN departuresByStopID)
  ELSE getAllSubscribedStopIDs

\* the synchronous part of fetchData(clientID): up to the await at line 41.
\* `.get(clientID)!.filter` on a missing entry raises a TypeError.
FetchStartOK(clientID) ==
  clientID = NoClient \/ clientID \in DOMAIN subscribedStopIDsByClientID

\* the periodic refreshes that are suspended
PendingTicks == {p \in pending : p.clientID = NoClient}

\* a suspended fetchData call: its argument, the request it made (line 41) and,
\* to tell apart periodic refreshes that made the same request, a number
PendingAfterStart(clientID) ==
  IF FetchStartOK(clientID)
  THEN pending \cup
         {[clientID |-> clientID, stopIDs |-> stopIDsToFetch(clientID),
           n |-> IF clientID = NoClient
                 THEN CHOOSE k \in 1..(Cardinality(PendingTicks) + 1) :
                        /\ \A p \in PendingTicks : p.n # k
                        /\ \A j \in 1..(k - 1) : \E p \in PendingTicks : p.n = j
                 ELSE 0]}
  ELSE pending

\* a handler run: the handler, the connection it ran for, the header or frame
\* it was given, the stop list it requested from the gateway, the gateway's
\* answer, the text it answered or closed with, and the close code
Op(op, id, raw, stops, res, status, code) ==
  [op |-> op, id |-> id, raw |-> raw, stops |-> stops, res |-> res,
   status |-> status, code |-> code]

\* a handshake that parses the header and skips the schema check
headerError_NoSchemaCheck(raw) ==
  IF raw.kind \in {"null", "empty"} THEN "header is missing"
  ELSE IF ~JSONParse(raw).ok THEN JSONParse(raw).error
  ELSE ""

\* server.ts:101-116: the error the handshake answers with, "" when the header
\* passes
headerError(raw) ==
  LET parsed == JSONParse(raw)
      res == StopIDsSchema(parsed.value)
  IN IF raw.kind \in {"null", "empty"} THEN "header is missing"
     ELSE IF ~parsed.ok THEN parsed.error
     ELSE IF ~res.success THEN res.message
     ELSE ""

\* a message handler that parses the frame and skips the schema check
messageError_NoSchemaCheck(raw) ==
  IF raw.kind = "binary" THEN "Message has to be string"
  ELSE IF ~JSONParse(raw).ok THEN JSONParse(raw).error
  ELSE ""

\* server.ts:138-155: the reason the message handler closes with, "" when the
\* frame is a well-formed subscribe message
messageError(raw) ==
  LET parsed == JSONParse(raw)
      res == SubscribeSchema(parsed.value)
  IN IF raw.kind = "binary" THEN "Message has to be string"
     ELSE IF ~parsed.ok THEN parsed.error
     ELSE IF ~res.success THEN res.message
     ELSE ""

\* a cache that is replaced by the response instead of updated from it
updatedDepartures_Replaced(departures) ==
  IF Len(departures) # 0 THEN GroupParsed(departures) ELSE departuresByStopID

\* server.ts:51-62: every stop of the response overwrites its cache entry
updatedDepartures(departures) ==
  IF Len(departures) # 0
  THEN LET g == GroupParsed(departures)
       IN [s \in DOMAIN departuresByStopID \cup DOMAIN g |->
             IF s \in DOMAIN g THEN g[s] ELSE departuresByStopID[s]]
  ELSE departuresByStopID

\* server.ts:71-76: Object.fromEntries over the subscribed stops; the value of
\* a stop that is not cached is `undefined`
dataForClient(stopIDs, cache) ==
  LET ks == FirstOccurrences(stopIDs)
  IN [i \in 1..Len(ks) |->
        [key |-> ks[i],
         defined |-> ks[i] \in DOMAIN cache,
         value |-> IF ks[i] \in DOMAIN cache THEN cache[ks[i]] ELSE <<>>]]

\* JSON.stringify of an object: a property whose value is undefined is left out
JSONStringify(obj) ==
  LET kept == SelectSeq(obj, LAMBDA e : e.defined)
  IN [i \in 1..Len(kept) |-> [key |-> kept[i].key, value |-> kept[i].value]]

\* a payload that holds the whole cache instead of the client's stops
getStringifiedDataForClientID_WholeCache(clientID, cache) ==
  LET ks == SortedSeq({IF s = "stopA" THEN 1 ELSE 2 : s \in DOMAIN cache})
      name == [i \in 1..Len(ks) |-> IF ks[i] = 1 THEN "stopA" ELSE "stopB"]
  IN [i \in 1..Len(ks) |-> [key |-> name[i], value |-> cache[name[i]]]]

\* server.ts:68-78
getStringifiedDataForClientID(clientID, cache) ==
  JSONStringify(dataForClient(subscribedStopIDsByClientID[clientID], cache))

\* server.ts:83-89: the send of a targeted refresh; `wsByClientID.get(clientID)!`
\* is undefined once the connection has closed and `.send` on it raises
targetedSend(clientID, cache) ==
  IF clientID \notin Range(wsByClientID)
       \/ clientID \notin DOMAIN subscribedStopIDsByClientID
  THEN [sent |-> <<>>, thrown |-> "TypeError"]
  ELSE [sent |-> <<[to |-> clientID,
                    payload |-> getStringifiedDataForClientID(clientID, cache)]>>,
        thrown |-> ""]

\* a broadcast that stops after the first send-handle
broadcastSend_FirstOnly(cache) ==
  [sent |-> [i \in 1..(IF wsByClientID = <<>> THEN 0 ELSE 1) |->
               [to |-> wsByClientID[i],
                payload |-> getStringifiedDataForClientID(wsByClientID[i], cache)]],
   thrown |-> ""]

\* server.ts:94-96: the send to every send-handle, in Map order; a handle
\* without a registry entry raises and ends the loop
broadcastSend(cache) ==
  LET bad == {i \in 1..Len(wsByClientID) :
                wsByClientID[i] \notin DOMAIN subscribedStopIDsByClientID}
      n == IF bad = {} THEN Len(wsByClientID)
           ELSE (CHOOSE i \in bad : \A j \in bad : i <= j) - 1
  IN [sent |-> [i \in 1..n |->
                  [to |-> wsByClientID[i],
                   payload |-> getStringifiedDataForClientID(wsByClientID[i], cache)]],
      thrown |-> IF bad = {} THEN "" ELSE "TypeError"]

\* a registration that stores the stop list reversed
registerSubscription_Reversed(clientID, data) ==
  MapSet(subscribedStopIDsByClientID, clientID,
         [i \in 1..Len(data) |-> data[Len(data) + 1 - i]])

\* server.ts:119
registerSubscription(clientID, data) ==
  MapSet(subscribedStopIDsByClientID, clientID, data)

\* a subscribe message that adds to the list instead of replacing it
replaceSubscription_Merged(clientID, data) ==
  MapSet(subscribedStopIDsByClientID, clientID,
         subscribedStopIDsByClientID[clientID] \o data)

\* server.ts:157
replaceSubscription(clientID, data) ==
  MapSet(subscribedStopIDsByClientID, clientID, data)

\* a close that empties the registry
deleteSubscription_Clear(clientID) == [c \in {} |-> <<>>]

\* server.ts:162
deleteSubscription(clientID) == MapDelete(subscribedStopIDsByClientID, clientID)

\* a close that keeps the send-handle of the connection
deleteWs_Keep(clientID) == wsByClientID

\* server.ts:161
deleteWs(clientID) == SelectSeq(wsByClientID, LAMBDA k : k # clientID)

\* server.ts:128: Map.set of a key appends it unless it is present
setWs(clientID) ==
  IF clientID \in Range(wsByClientID) THEN wsByClientID
  ELSE Append(wsByClientID, clientID)

\* an open handler without the guard of line 132
openCreatesTimer_Always == TRUE

\* server.ts:132: open creates a timer only when no handle is held
openCreatesTimer == intervalId = null

\* a close that returns while the registry is empty too (`>= 0`)
closeClearsTimer_Never(registry) ==
  ~(Cardinality(DOMAIN registry) >= 0 \/ intervalId = null)

\* server.ts:164-165: close clears the timer when the registry has become
\* empty and a handle is held
closeClearsTimer(registry) ==
  ~(Cardinality(DOMAIN registry) > 0 \/ intervalId = null)

\* a refresh that returns on an empty answer whether or not it has a target
skipsUpdate_IgnoresTarget(departures, clientID) == Len(departures) = 0

\* server.ts:46
skipsUpdate(departures, clientID) == Len(departures) = 0 /\ clientID = NoClient

\* the module-level state of server.ts:16-21, with the live timers and the
\* sockets
Snapshot ==
  [intervalId |-> intervalId,
   subscribedStopIDsByClientID |-> subscribedStopIDsByClientID,
   wsByClientID |-> wsByClientID,
   departuresByStopID |-> departuresByStopID,
   timers |-> timers,
   conn |-> conn]

Init ==
  /\ intervalId = null
  /\ subscribedStopIDsByClientID = [c \in {} |-> <<>>]
  /\ wsByClientID = <<>>
  /\ departuresByStopID = [s \in {} |-> <<>>]
  /\ timers = {}
  /\ timerSeq = 0
  /\ nextID = 0
  /\ conn = [c \in {} |-> "none"]
  /\ pending = {}
  /\ lastOp = Op("init", NoClient, RawNull, <<>>, <<>>, "", 0)
  /\ before = Snapshot
  /\ sent = <<>>
  /\ thrown = ""

\* server.ts:100-116: a handshake request that is rejected before any state
\* is touched
fetchRejected(raw) ==
  LET error == headerError(raw)
  IN /\ error # ""
     /\ before' = Snapshot
     /\ lastOp' = Op("fetch", NoClient, raw, <<>>, <<>>, error, 0)
     /\ sent' = <<>>
     /\ thrown' = ""
     /\ UNCHANGED <<intervalId, subscribedStopIDsByClientID, wsByClientID,
                    departuresByStopID, timers, timerSeq, nextID, conn, pending>>

\* server.ts:112-122: a handshake request that passes validation; `success`
\* is the result of server.upgrade
fetchAccepted(raw, success) ==
  LET parsed == JSONParse(raw)
      res == StopIDsSchema(parsed.value)
      clientID == nextID + 1
  IN /\ headerError(raw) = ""
     /\ nextID < MaxClients
     /\ nextID' = clientID
     /\ subscribedStopIDsByClientID' = registerSubscription(clientID, res.data)
     /\ conn' = [c \in 1..clientID |->
                   IF c = clientID
                   THEN (IF success THEN "upgraded" ELSE "failed")
                   ELSE conn[c]]
     /\ before' = Snapshot
     /\ lastOp' = Op("fetch", clientID, raw, <<>>, <<>>,
                     IF success THEN "upgraded" ELSE "Failed to upgrade connection", 0)
     /\ sent' = <<>>
     /\ thrown' = ""
     /\ UNCHANGED <<intervalId, wsByClientID, departuresByStopID, timers,
                    timerSeq, pending>>

\* server.ts:125-136
open(clientID) ==
  /\ clientID \in DOMAIN conn
  /\ conn[clientID] = "upgraded"
  /\ Cardinality(pending) < MaxPending
  /\ conn' = [conn EXCEPT ![clientID] = "open"]
  /\ wsByClientID' = setWs(clientID)
  /\ pending' = PendingAfterStart(clientID)
  /\ thrown' = IF FetchStartOK(clientID) THEN "" ELSE "TypeError"
  /\ IF openCreatesTimer
     THEN /\ timerSeq' = timerSeq + 1
          /\ timers' = timers \cup {timerSeq + 1}
          /\ intervalId' = timerSeq + 1
     ELSE UNCHANGED <<timerSeq, timers, intervalId>>
  /\ before' = Snapshot
  /\ lastOp' = Op("open", clientID, RawNull, <<>>, <<>>, "", 0)
  /\ sent' = <<>>
  /\ UNCHANGED <<subscribedStopIDsByClientID, departuresByStopID, nextID>>

\* server.ts:137-155: a frame that is not a well-formed subscribe message
messageRejected(clientID, raw) ==
  LET reason == messageError(raw)
  IN /\ clientID \in DOMAIN conn
     /\ conn[clientID] = "open"
     /\ reason # ""
     /\ conn' = [conn EXCEPT ![clientID] = "closing"]
     /\ before' = Snapshot
     /\ lastOp' = Op("message", clientID, raw, <<>>, <<>>, reason, 1011)
     /\ sent' = <<>>
     /\ thrown' = ""
     /\ UNCHANGED <<intervalId, subscribedStopIDsByClientID, wsByClientID,
                    departuresByStopID, timers, timerSeq, nextID, pending>>

\* server.ts:151-157: a well-formed subscribe message
messageAccepted(clientID, raw) ==
  LET parsed == JSONParse(raw)
      res == SubscribeSchema(parsed.value)
  IN /\ clientID \in DOMAIN conn
     /\ conn[clientID] = "open"
     /\ messageError(raw) = ""
     /\ subscribedStopIDsByClientID' = replaceSubscription(clientID, res.data)
     /\ before' = Snapshot
     /\ lastOp' = Op("message", clientID, raw, <<>>, <<>>, "", 0)
     /\ sent' = <<>>
     /\ thrown' = ""
     /\ UNCHANGED <<intervalId, wsByClientID, departuresByStopID, timers,
                    timerSeq, nextID, conn, pending>>

\* server.ts:159-169
close(clientID) ==
  /\ clientID \in DOMAIN conn
  /\ conn[clientID] \in {"open", "closing"}
  /\ conn' = [conn EXCEPT ![clientID] = "closed"]
  /\ wsByClientID' = deleteWs(clientID)
  /\ subscribedStopIDsByClientID' = deleteSubscription(clientID)
  /\ IF closeClearsTimer(subscribedStopIDsByClientID')
     THEN /\ timers' = timers \ {intervalId}
          /\ intervalId' = null
     ELSE UNCHANGED <<timers, intervalId>>
  /\ before' = Snapshot
  /\ lastOp' = Op("close", clientID, RawNull, <<>>, <<>>, "", 0)
  /\ sent' = <<>>
  /\ thrown' = ""
  /\ UNCHANGED <<departuresByStopID, timerSeq, nextID, pending>>

\* server.ts:134, 28-41: a timer created by setInterval fires and calls
\* fetchData(), which suspends at the await
tick ==
  /\ timers # {}
  /\ Cardinality(pending) < MaxPending
  /\ pending' = PendingAfterStart(NoClient)
  /\ before' = Snapshot
  /\ lastOp' = Op("tick", NoClient, RawNull, stopIDsToFetch(NoClient), <<>>, "", 0)
  /\ sent' = <<>>
  /\ thrown' = ""
  /\ UNCHANGED <<intervalId, subscribedStopIDsByClientID, wsByClientID,
                 departuresByStopID, timers, timerSeq, nextID, conn>>

\* server.ts:41-97: fetchApiData resolves with `departures` and fetchData
\* runs to its end
fetchResolved(p, departures) ==
  LET cache == updatedDepartures(departures)
      out == IF p.clientID # NoClient THEN targetedSend(p.clientID, cache)
             ELSE broadcastSend(cache)
  IN /\ p \in pending
     /\ pending' = pending \ {p}
     /\ before' = Snapshot
     /\ IF skipsUpdate(departures, p.clientID)
        THEN /\ UNCHANGED departuresByStopID
             /\ sent' = <<>>
             /\ thrown' = ""
             /\ lastOp' = Op("resolved", p.clientID, RawNull, p.stopIDs, departures, "skipped", 0)
        ELSE /\ departuresByStopID' = cache
             /\ sent' = out.sent
             /\ thrown' = out.thrown
             /\ lastOp' = Op("resolved", p.clientID, RawNull, p.stopIDs, departures, "sent", 0)
     /\ UNCHANGED <<intervalId, subscribedStopIDsByClientID, wsByClientID,
                    timers, timerSeq, nextID, conn>>

\* server.ts:41: fetchApiData rejects; fetchData has no handler for it
fetchFailed(p) ==
     /\ p \in pending
     /\ pending' = pending \ {p}
     /\ before' = Snapshot
     /\ lastOp' = Op("rejected", p.clientID, RawNull, p.stopIDs, <<>>, "", 0)
     /\ sent' = <<>>
     /\ thrown' = "rejected"
     /\ UNCHANGED <<intervalId, subscribedStopIDsByClientID, wsByClientID,
                    departuresByStopID, timers, timerSeq, nextID, conn>>

Next ==
  \/ \E raw \in HeaderInputs : fetchRejected(raw)
  \/ \E raw \in HeaderInputs, success \in BOOLEAN : fetchAccepted(raw, success)
  \/ \E clientID \in 1..MaxClients : open(clientID)
  \/ \E clientID \in 1..MaxClients, raw \in MessageInputs : messageRejected(clientID, raw)
  \/ \E clientID \in 1..MaxClients, raw \in MessageInputs : messageAccepted(clientID, raw)
  \/ \E clientID \in 1..MaxClients : close(clientID)
  \/ tick
  \/ \E p \in pending : \E departures \in Responses(p.stopIDs) :
       fetchResolved(p, departures)
  \/ \E p \in pending : fetchFailed(p)

Spec == Init /\ [][Next]_vars

(* ----------------------------------------------------------------- claims *)
\* a connection that exists: upgraded (its open handler is due), open, or
\* closing (its close handler is due)
Live(c) == c \in DOMAIN conn /\ conn[c] \in {"upgraded", "open", "closing"}

\* no open or close handler is due
Quiescent == \A c \in DOMAIN conn : conn[c] \notin {"upgraded", "closing"}

\* the stop list a header or frame carries, as the client wrote it
StopsSent(raw) == [i \in 1..Len(raw.value.items) |-> raw.value.items[i].s]

\* the header is JSON for a non-empty array of non-empty strings
ValidHeader(raw) ==
  /\ raw.kind = "json"
  /\ raw.value.t = "arr"
  /\ raw.value.items # <<>>
  /\ \A i \in 1..Len(raw.value.items) :
       raw.value.items[i].t = "str" /\ raw.value.items[i].s # ""

\* the frame is text, JSON for { subscribe: <non-empty array of non-empty
\* strings> }
ValidMessage(raw) ==
  /\ raw.kind = "json"
  /\ raw.value.t = "obj"
  /\ raw.value.key = "subscribe"
  /\ raw.value.vt = "arr"
  /\ raw.value.items # <<>>
  /\ \A i \in 1..Len(raw.value.items) :
       raw.value.items[i].t = "str" /\ raw.value.items[i].s # ""

HandshakeAccepted == lastOp.op = "fetch" /\ lastOp.id # NoClient
MessageAccepted == lastOp.op = "message" /\ lastOp.code = 0
MessageRejected == lastOp.op = "message" /\ lastOp.code # 0

RECURSIVE Count(_, _)
\* the number of times x occurs in s
Count(x, s) ==
  IF s = <<>> THEN 0 ELSE (IF Head(s) = x THEN 1 ELSE 0) + Count(x, Tail(s))

RECURSIVE CountIn(_, _, _)
\* the number of times x occurs in the entries m[k], k in ks
CountIn(x, m, ks) ==
  IF ks = {} THEN 0
  ELSE LET k == CHOOSE k \in ks : TRUE
       IN Count(x, m[k]) + CountIn(x, m, ks \ {k})

\* C1 (as claimed): whenever no open or close handler is due, the refresh
\* timer is active exactly when some existing connection has a non-empty
\* entry in the Subscription Registry.
C1_TimerIffSubscribed ==
  Quiescent =>
    ((intervalId # null) <=>
       \E c \in DOMAIN subscribedStopIDsByClientID :
         Live(c) /\ subscribedStopIDsByClientID[c] # <<>>)

\* C2 (as claimed): every key of the Subscription Registry is the identifier
\* of a connection that exists.
C2_RegistryKeysAreConnections ==
  \A c \in DOMAIN subscribedStopIDsByClientID : Live(c)

\* C3: the close handler removes the connection's registry entry and its
\* send-handle, and when the registry is empty afterwards no timer is left
\* running and the handle is null; an open handler that finds the handle null
\* leaves a handle that setInterval has just made, of a timer that runs.
C3_CloseRemovesAndStopsTimer ==
  /\ lastOp.op = "close" =>
       /\ lastOp.id \notin DOMAIN subscribedStopIDsByClientID
       /\ lastOp.id \notin Range(wsByClientID)
       /\ DOMAIN subscribedStopIDsByClientID = {} =>
            intervalId = null /\ timers = {}
  /\ (lastOp.op = "open" /\ before.intervalId = null) =>
       /\ intervalId # null
       /\ intervalId \notin before.timers
       /\ intervalId = timerSeq
       /\ timers = {intervalId}

\* C3 witness: a connection opened after the last one had closed and a second
\* timer was started for it.
C3_Witness ==
  /\ lastOp.op = "open"
  /\ before.intervalId = null
  /\ timerSeq = 2
  /\ \E c \in DOMAIN conn : conn[c] = "closed"

\* C4: an accepted handshake with stop list L makes an identifier that is not
\* a key of the registry and adds the one entry identifier -> L, in L's order;
\* every other entry is as it was.
C4_HandshakeAddsOneEntry ==
  HandshakeAccepted =>
    /\ lastOp.id \notin DOMAIN before.subscribedStopIDsByClientID
    /\ DOMAIN subscribedStopIDsByClientID =
         DOMAIN before.subscribedStopIDsByClientID \cup {lastOp.id}
    /\ subscribedStopIDsByClientID[lastOp.id] = StopsSent(lastOp.raw)
    /\ \A c \in DOMAIN before.subscribedStopIDsByClientID :
         subscribedStopIDsByClientID[c] = before.subscribedStopIDsByClientID[c]

\* C4 witness: a handshake with two stops was accepted while another entry
\* was registered.
C4_Witness ==
  /\ HandshakeAccepted
  /\ StopsSent(lastOp.raw) = <<"stopB", "stopA">>
  /\ lastOp.status = "upgraded"
  /\ before.subscribedStopIDsByClientID # <<>>

\* C5: a handshake whose stop list is missing, is not JSON or fails the schema
\* is answered with an error and changes nothing: no identifier is made and
\* the registry, the send-handle map, the cache and the timer are as before.
C5_RejectedHandshakeMutatesNothing ==
  (lastOp.op = "fetch" /\ ~ValidHeader(lastOp.raw)) =>
    /\ lastOp.id = NoClient
    /\ lastOp.status # ""
    /\ DOMAIN conn = DOMAIN before.conn
    /\ subscribedStopIDsByClientID = before.subscribedStopIDsByClientID
    /\ wsByClientID = before.wsByClientID
    /\ departuresByStopID = before.departuresByStopID
    /\ intervalId = before.intervalId
    /\ timers = before.timers

\* C5 witness: a header that is JSON but fails the schema was rejected while
\* a connection was subscribed and the timer ran.
C5_Witness ==
  /\ lastOp.op = "fetch"
  /\ lastOp.raw.kind = "json"
  /\ ~ValidHeader(lastOp.raw)
  /\ wsByClientID # <<>>
  /\ intervalId # null

\* C6: a well-formed subscribe message with stop list S on connection c makes
\* c's entry exactly S and leaves every other entry as it was.
C6_SubscribeReplaces ==
  MessageAccepted =>
    /\ DOMAIN subscribedStopIDsByClientID = DOMAIN before.subscribedStopIDsByClientID
    /\ subscribedStopIDsByClientID[lastOp.id] = StopsSent(lastOp.raw)
    /\ \A c \in DOMAIN subscribedStopIDsByClientID \ {lastOp.id} :
         subscribedStopIDsByClientID[c] = before.subscribedStopIDsByClientID[c]

\* C6 witness: the message replaced a list by one that lacks a stop of it.
C6_Witness ==
  /\ MessageAccepted
  /\ before.subscribedStopIDsByClientID[lastOp.id] = <<"stopB", "stopA">>
  /\ subscribedStopIDsByClientID[lastOp.id] = <<"stopA">>

\* C7: a rejected message on connection X, and a close of X, change neither
\* the registry entry nor the send-handle nor the socket of another
\* connection Y.
C7_MalformedMessageIsolated ==
  (MessageRejected \/ lastOp.op = "close") =>
    \A y \in DOMAIN before.conn \ {lastOp.id} :
      /\ conn[y] = before.conn[y]
      /\ (y \in Range(wsByClientID)) = (y \in Range(before.wsByClientID))
      /\ (y \in DOMAIN subscribedStopIDsByClientID)
           = (y \in DOMAIN before.subscribedStopIDsByClientID)
      /\ y \in DOMAIN subscribedStopIDsByClientID =>
           subscribedStopIDsByClientID[y] = before.subscribedStopIDsByClientID[y]

\* C7 witness: the close that a rejected message caused ran while another
\* connection was open and subscribed.
C7_Witness ==
  /\ lastOp.op = "close"
  /\ before.conn[lastOp.id] = "closing"
  /\ \E y \in DOMAIN conn \ {lastOp.id} :
       /\ conn[y] = "open"
       /\ y \in DOMAIN subscribedStopIDsByClientID
       /\ y \in Range(wsByClientID)

\* C8: a frame that is not a string, is not JSON or fails the subscribe schema
\* makes the handler close the connection with code 1011 and a reason, and
\* the handler leaves the registry as it found it.
C8_MalformedMessageCloses ==
  (lastOp.op = "message" /\ ~ValidMessage(lastOp.raw)) =>
    /\ conn[lastOp.id] = "closing"
    /\ lastOp.code = 1011
    /\ lastOp.status # ""
    /\ subscribedStopIDsByClientID = before.subscribedStopIDsByClientID

\* C8 witness: a frame that is JSON without the subscribe key was rejected.
C8_Witness ==
  /\ lastOp.op = "message"
  /\ lastOp.raw.kind = "json"
  /\ lastOp.raw.value.t = "obj"
  /\ lastOp.raw.value.key # "subscribe"
  /\ lastOp.id \in DOMAIN subscribedStopIDsByClientID

\* the departures of a response for stop s, in the cache's shape
ParsedFor(res, s) ==
  LET g == SelectSeq(res, LAMBDA d : d.stop.id = s)
  IN [i \in 1..Len(g) |-> [stopID |-> s, v |-> g[i].v]]

\* C9: no cache key is ever removed; the entry of a stop differs from what
\* the last handler found only if that handler was a fetch completion whose
\* response holds a departure for the stop; and after such a completion the
\* entry is that response's departures for the stop.
C9_CacheChangesOnlyOnData ==
  /\ DOMAIN before.departuresByStopID \subseteq DOMAIN departuresByStopID
  /\ \A s \in DOMAIN departuresByStopID :
       (s \notin DOMAIN before.departuresByStopID
          \/ departuresByStopID[s] # before.departuresByStopID[s]) =>
         (lastOp.op = "resolved" /\ ParsedFor(lastOp.res, s) # <<>>)
  /\ lastOp.op = "resolved" =>
       \A s \in Stops :
         ParsedFor(lastOp.res, s) # <<>> =>
           (s \in DOMAIN departuresByStopID
              /\ departuresByStopID[s] = ParsedFor(lastOp.res, s))

\* C9 witness: a fetch that asked for two cached stops was answered for one of
\* them only, with departures other than the cached ones.
C9_Witness ==
  /\ lastOp.op = "resolved"
  /\ Range(lastOp.stops) = {"stopA", "stopB"}
  /\ {"stopA", "stopB"} \subseteq DOMAIN before.departuresByStopID
  /\ ParsedFor(lastOp.res, "stopA") # <<>>
  /\ ParsedFor(lastOp.res, "stopB") = <<>>
  /\ departuresByStopID["stopA"] # before.departuresByStopID["stopA"]

\* C10 (as claimed): when every registry entry belongs to a connection that
\* exists, the request of a periodic tick holds every stop those connections
\* subscribe to, each once.
C10_TickRequestNamesEachStopOnce ==
  (lastOp.op = "tick" /\ \A c \in DOMAIN subscribedStopIDsByClientID : Live(c)) =>
    /\ Range(lastOp.stops) =
         UNION {Range(subscribedStopIDsByClientID[c]) :
                  c \in DOMAIN subscribedStopIDsByClientID}
    /\ \A s \in Stops : Count(s, lastOp.stops) <= 1

\* C10 (amended): the request of a periodic tick is what fetchData hands to
\* the gateway, and it holds a stop as many times as the entries of the
\* registry hold it: every subscribed stop, once per subscription.
C10_TickRequestIsConcatenation ==
  lastOp.op = "tick" =>
    /\ \E p \in pending : p.clientID = NoClient /\ p.stopIDs = lastOp.stops
    /\ \A s \in Stops :
         Count(s, lastOp.stops) =
           CountIn(s, subscribedStopIDsByClientID, DOMAIN subscribedStopIDsByClientID)

\* C10 witness: a tick while two open connections subscribe to stopA.
C10_Witness ==
  /\ lastOp.op = "tick"
  /\ \E c, d \in Range(wsByClientID) :
       /\ c # d
       /\ "stopA" \in Range(subscribedStopIDsByClientID[c])
       /\ "stopA" \in Range(subscribedStopIDsByClientID[d])
  /\ Count("stopA", lastOp.stops) = 2

\* the keys of a payload
PayloadKeys(payload) == {payload[i].key : i \in 1..Len(payload)}

\* C11 (as claimed): every payload sent to a connection has a key for every
\* stop of the connection's registry entry, cached or not.
C11_PayloadHasEverySubscribedStop ==
  \A i \in 1..Len(sent) :
    Range(subscribedStopIDsByClientID[sent[i].to]) \subseteq PayloadKeys(sent[i].payload)

\* C12: every payload sent to a connection holds only stops of that
\* connection's registry entry as it is when the payload is sent, each once,
\* and the value of each is the cache entry of the stop at that moment.
C12_PayloadOnlyOwnStops ==
  \A i \in 1..Len(sent) :
    LET payload == sent[i].payload
    IN /\ sent[i].to \in DOMAIN subscribedStopIDsByClientID
       /\ PayloadKeys(payload) \subseteq Range(subscribedStopIDsByClientID[sent[i].to])
       /\ \A j \in 1..Len(payload) :
            /\ payload[j].key \in DOMAIN departuresByStopID
            /\ payload[j].value = departuresByStopID[payload[j].key]
            /\ \A k \in 1..Len(payload) : payload[k].key = payload[j].key => k = j

\* C12 witness: the connection asked for stopB at open, replaced its list by
\* one without stopB while the fetch was in flight, and the payload of that
\* fetch leaves out stopB although it is cached.
C12_Witness ==
  /\ lastOp.op = "resolved"
  /\ lastOp.id # NoClient
  /\ "stopB" \in Range(lastOp.stops)
  /\ "stopB" \in DOMAIN departuresByStopID
  /\ Len(sent) = 1
  /\ sent[1].to = lastOp.id
  /\ subscribedStopIDsByClientID[lastOp.id] = <<"stopA">>
  /\ PayloadKeys(sent[1].payload) = {"stopA"}

\* C13: the open handler leaves a targeted refresh of its connection waiting
\* for the gateway, and when the gateway answers a targeted refresh whose
\* connection still has its send-handle, that step sends the connection
\* exactly one payload and raises nothing, also when the answer is empty; no
\* timer tick is involved.
C13_TargetedRefreshSends ==
  /\ lastOp.op = "open" =>
       \E p \in pending : p.clientID = lastOp.id
  /\ (lastOp.op = "resolved" /\ lastOp.id # NoClient
        /\ lastOp.id \in Range(wsByClientID)) =>
       /\ Len(sent) = 1
       /\ sent[1].to = lastOp.id
       /\ thrown = ""

\* C13 witness: the gateway answered the targeted refresh of an open
\* connection with no departures and the connection was sent a payload.
C13_Witness ==
  /\ lastOp.op = "resolved"
  /\ lastOp.id # NoClient
  /\ lastOp.res = <<>>
  /\ conn[lastOp.id] = "open"
  /\ Len(sent) = 1
  /\ sent[1].to = lastOp.id

\* C14: at most one timer made by setInterval is running, it is the one whose
\* handle is held, and an open handler makes a timer only when it finds the
\* handle null.
C14_AtMostOneTimer ==
  /\ Cardinality(timers) <= 1
  /\ timers = IF intervalId = null THEN {} ELSE {intervalId}
  /\ (lastOp.op = "open" /\ timers # before.timers) => before.intervalId = null

\* C14 witness: a second connection opened while the timer of the first was
\* running, and no second timer was made.
C14_Witness ==
  /\ lastOp.op = "open"
  /\ before.intervalId # null
  /\ Len(wsByClientID) = 2
  /\ timerSeq = 1
  /\ timers = {1}

\* C15 (as claimed): when the gateway answers a targeted refresh whose
\* connection has closed meanwhile, nothing is sent and nothing is raised.
C15_ClosedTargetIsSkipped ==
  (lastOp.op = "resolved" /\ lastOp.id # NoClient
     /\ lastOp.id \notin Range(wsByClientID)) =>
    /\ sent = <<>>
    /\ thrown = ""

\* C16 (as claimed): no refresh waits for the gateway with an empty request.
C16_GatewayNeverCalledEmpty ==
  \A p \in pending : p.stopIDs # <<>>

\* the payload of connection c as the cache and the registry stand: the
\* cached stops of c's entry, each once, with their cache entries
PayloadNow(c) ==
  LET ks == SelectSeq(FirstOccurrences(subscribedStopIDsByClientID[c]),
                      LAMBDA s : s \in DOMAIN departuresByStopID)
  IN [i \in 1..Len(ks) |-> [key |-> ks[i], value |-> departuresByStopID[ks[i]]]]

\* C17 (as claimed): when the gateway answers a periodic refresh whose
\* request was not empty, every connection with a send-handle is sent one
\* payload.
C17_TickPushesUnlessRequestEmpty ==
  (lastOp.op = "resolved" /\ lastOp.id = NoClient /\ lastOp.stops # <<>>) =>
    /\ Len(sent) = Len(wsByClientID)
    /\ \A i \in 1..Len(sent) : sent[i].to = wsByClientID[i]

\* C17 (amended): a periodic refresh sends nothing and leaves the cache alone
\* when the gateway's answer holds no departure; when it holds one, every
\* connection with a send-handle is sent exactly one payload, and each
\* payload is built from the cache as that answer left it.
C17_TickPushesUnlessAnswerEmpty ==
  (lastOp.op = "resolved" /\ lastOp.id = NoClient) =>
    /\ lastOp.res = <<>> =>
         (sent = <<>> /\ departuresByStopID = before.departuresByStopID)
    /\ lastOp.res # <<>> =>
         /\ thrown = ""
         /\ Len(sent) = Len(wsByClientID)
         /\ \A i \in 1..Len(sent) :
              /\ sent[i].to = wsByClientID[i]
              /\ sent[i].payload = PayloadNow(sent[i].to)

\* C17 witness: a periodic refresh was answered with departures while two
\* connections had send-handles, and both were sent a payload.
C17_Witness ==
  /\ lastOp.op = "resolved"
  /\ lastOp.id = NoClient
  /\ lastOp.res # <<>>
  /\ Len(wsByClientID) = 2
  /\ Len(sent) = 2
  /\ sent[1].to # sent[2].to

\* C18: the request the open handler's targeted refresh hands to the gateway
\* holds the stops of the connection's entry that are not cached when the
\* refresh starts, in the entry's order, and no other stop.
C18_TargetedRequestIsUncachedStops ==
  lastOp.op = "open" =>
    \E p \in pending :
      /\ p.clientID = lastOp.id
      /\ p.stopIDs =
           SelectSeq(before.subscribedStopIDsByClientID[lastOp.id],
                     LAMBDA s : s \notin DOMAIN before.departuresByStopID)
      /\ \A i \in 1..Len(p.stopIDs) :
           /\ p.stopIDs[i] \notin DOMAIN before.departuresByStopID
           /\ p.stopIDs[i] \in Range(before.subscribedStopIDsByClientID[lastOp.id])
      /\ \A s \in Range(before.subscribedStopIDsByClientID[lastOp.id]) :
           s \in DOMAIN before.departuresByStopID \/ s \in Range(p.stopIDs)

\* C18 witness: a connection subscribed to stopB and stopA opened while only
\* stopA was cached, and its refresh asked for stopB alone.
C18_Witness ==
  /\ lastOp.op = "open"
  /\ subscribedStopIDsByClientID[lastOp.id] = <<"stopB", "stopA">>
  /\ DOMAIN before.departuresByStopID = {"stopA"}
  /\ \E p \in pending : p.clientID = lastOp.id /\ p.stopIDs = <<"stopB">>

\* C19 (as claimed): when the gateway call of a refresh fails, nothing
\* escapes the refresh, the registry, the cache and the send-handle map are
\* unchanged, the timer stays as it was, and no connection is closed.
C19_FetchFailureIsCaught ==
  lastOp.op = "rejected" =>
    /\ thrown = ""
    /\ subscribedStopIDsByClientID = before.subscribedStopIDsByClientID
    /\ departuresByStopID = before.departuresByStopID
    /\ wsByClientID = before.wsByClientID
    /\ intervalId = before.intervalId
    /\ sent = <<>>

\* C20: every connection identifier with a send-handle has a registry entry,
\* and a periodic refresh that reaches its broadcast finds the subscription
\* of every connection it sends to.
C20_SendHandleHasSubscription ==
  /\ Range(wsByClientID) \subseteq DOMAIN subscribedStopIDsByClientID
  /\ (lastOp.op = "resolved" /\ lastOp.id = NoClient) => thrown = ""

\* C20 witness: after one of two open connections closed, a periodic refresh
\* was answered and broadcast to the connection that is left.
C20_Witness ==
  /\ lastOp.op = "resolved"
  /\ lastOp.id = NoClient
  /\ Len(wsByClientID) = 1
  /\ Len(sent) = 1
  /\ \E c \in DOMAIN conn : conn[c] = "closed"
  /\ Range(wsByClientID) \subseteq DOMAIN subscribedStopIDsByClientID
====
